---------------------------- MODULE Spec2Model ----------------------------
(***************************************************************************)
(* Sumhash512 streaming hasher: SumhashCore (src/src/sumhash512core.rs)    *)
(* driven through digest::core_api::CoreWrapper with an Eager block        *)
(* buffer.  Bytes are naturals 0..255, a u64 is four little-endian 16-bit  *)
(* limbs, a block is a sequence of 64 bytes.  The compression function of  *)
(* crate::compress is an injective symbolic constructor.                   *)
(***************************************************************************)
EXTENDS Integers, Sequences, FiniteSets, TLC

DIGEST_SIZE == 64

DIGEST_BLOCK_SIZE == 64

\* BlockSizeUser::BlockSize = U64: the size of the wrapper's block buffer.
BlockSize == 64

\* The hasher instances of the model.
Hashers == {1, 2}

\* Option: None is the empty sequence, Some(x) the one-element sequence.
None == <<>>

Some(x) == <<x>>

Unwrap(o) == o[1]

-----------------------------------------------------------------------------
(* Bytes and byte strings *)

Zeros(n) == [k \in 1..n |-> 0]

Rep(b, n) == [k \in 1..n |-> b]

Ramp(n) == [k \in 1..n |-> ((17 * k) + 3) % 256]

Take(s, n) == SubSeq(s, 1, n)

Drop(s, n) == SubSeq(s, n + 1, Len(s))

RECURSIVE Xor(_, _)
\* a ^ b on u8
Xor(a, b) ==
    IF a = 0 /\ b = 0 THEN 0
    ELSE (((a % 2) + (b % 2)) % 2) + (2 * Xor(a \div 2, b \div 2))

-----------------------------------------------------------------------------
(* u64 arithmetic on four 16-bit limbs, least significant first *)

Limb == 65536

U64Zero == <<0, 0, 0, 0>>

\* x + n for 0 <= n < 2^30: the wrapped sum and whether it overflowed 64 bits.
AddU64(x, n) ==
    LET s1 == x[1] + n
        s2 == x[2] + (s1 \div Limb)
        s3 == x[3] + (s2 \div Limb)
        s4 == x[4] + (s3 \div Limb)
    IN  [val |-> <<s1 % Limb, s2 % Limb, s3 % Limb, s4 % Limb>>,
         overflow |-> (s4 \div Limb) > 0]

\* x << 3 on u64: bits shifted out of the top are discarded.
Shl3(x) ==
    LET s1 == x[1] * 8
        s2 == (x[2] * 8) + (s1 \div Limb)
        s3 == (x[3] * 8) + (s2 \div Limb)
        s4 == (x[4] * 8) + (s3 \div Limb)
    IN  <<s1 % Limb, s2 % Limb, s3 % Limb, s4 % Limb>>

\* LittleEndian::write_u64: the 8 bytes of x, least significant first.
write_u64(x) ==
    <<x[1] % 256, x[1] \div 256, x[2] % 256, x[2] \div 256,
      x[3] % 256, x[3] \div 256, x[4] % 256, x[4] \div 256>>

\* The u64 of a small natural (n < 2^31).
U64(n) == <<n % Limb, n \div Limb, 0, 0>>


-----------------------------------------------------------------------------
(* SumhashCore *)

VARIABLES
    c,              \* c[i]: SumhashCore.c, the lookup table of hasher i
    h,              \* h[i]: SumhashCore.h, the hash chain
    len,            \* len[i]: SumhashCore.len, a u64
    salt,           \* salt[i]: SumhashCore.salt, None or 64 bytes
    buffer,         \* buffer[i]: the 64 bytes of the wrapper's block buffer
    pos,            \* pos[i]: the block buffer's fill, 0..63
    pc,             \* pc[i]: "ready", "done" (consumed by finalize_fixed) or "panic"
    overflowChecks, \* the build profile: TRUE when u64 overflow panics (debug)
    log,            \* log[i]: the internal updates since construction or reset
    absorbed,       \* absorbed[i]: the bytes written since construction or reset
    writes,         \* writes[i]: the number of writes to hasher i
    resets,         \* resets[i]: the number of resets of hasher i
    discarded,      \* discarded[i]: the bytes absorbed before the last reset
    chunks,         \* chunks[i]: the lengths of the writes since construction or reset
    written,        \* written[i]: what the last write returned, or None
    fin             \* fin[i]: the observation of the last finalization, or None

vars == <<c, h, len, salt, buffer, pos, pc, overflowChecks, log, absorbed,
          writes, resets, discarded, chunks, written, fin>>

\* compress::random_matrix_from_seed("Algorand", 8, 1024).lookup_table()
lookup_table == [seed |-> "Algorand", rows |-> 8, columns |-> 1024]

\* LookupTable::compress: the new chain is a function of the table and of the
\* 128-byte input alone, and different inputs give different chains.
compress(table, cin) == <<table, cin>>

\* a ^ b for all u8 a and b, tabulated once.
XorTable == [a \in 0..255 |-> [b \in 0..255 |-> Xor(a, b)]]

\* xor_bytes that reads b[0] for every byte.
xor_bytes_first(dst, a, b) == [k \in 1..Len(dst) |-> XorTable[a[k]][b[1]]]

\* The bytes dst.iter_mut().enumerate() writes: a[i] ^ b[i] for every i of dst.
xor_bytes(dst, a, b) == [k \in 1..Len(dst) |-> XorTable[a[k]][b[k]]]

\* xor_bytes indexes a and b over the whole of dst.
xor_bytes_panics(dst, a, b) == Len(a) < Len(dst) \/ Len(b) < Len(dst)

\* cin[64..].as_mut().write_all(data): data, then the zeros cin started with.
write_all(dst, data) ==
    [k \in 1..Len(dst) |-> IF k <= Len(data) THEN data[k] ELSE dst[k]]

\* write_all fails with WriteZero (and unwrap panics) when data does not fit.
write_all_panics(dst, data) == Len(data) > Len(dst)

\* update that copies the block whether or not there is a salt.
update_without_salt(self, data) ==
    LET sum == AddU64(self.len, Len(data))
        dst == Zeros(128 - DIGEST_BLOCK_SIZE)
        cin == [lo |-> self.h, hi |-> write_all(dst, data)]
    IN  IF write_all_panics(dst, data)
        THEN [self EXCEPT !.panicked = TRUE]
        ELSE [self EXCEPT !.len = sum.val,
                          !.h = compress(self.c, cin),
                          !.log = Append(@, [data |-> data, cin |-> cin,
                                             h |-> compress(self.c, cin),
                                             len |-> sum.val])]

\* update that writes the block into cin[65..128].
update_short_slice(self, data) ==
    LET sum == AddU64(self.len, Len(data))
        dst == Zeros(128 - DIGEST_BLOCK_SIZE - 1)
        bad == IF self.salt # None
               THEN xor_bytes_panics(dst, data, Unwrap(self.salt))
               ELSE write_all_panics(dst, data)
        cin == [lo |-> self.h,
                hi |-> <<0>> \o (IF self.salt # None
                                 THEN xor_bytes(dst, data, Unwrap(self.salt))
                                 ELSE write_all(dst, data))]
    IN  IF bad
        THEN [self EXCEPT !.panicked = TRUE]
        ELSE [self EXCEPT !.len = sum.val,
                          !.h = compress(self.c, cin),
                          !.log = Append(@, [data |-> data, cin |-> cin,
                                             h |-> compress(self.c, cin),
                                             len |-> sum.val])]

\* update that leaves cin[0..64] at the zeros cin starts with.
update_cin_without_chain(self, data) ==
    LET sum == AddU64(self.len, Len(data))
        dst == Zeros(128 - DIGEST_BLOCK_SIZE)
        cin == [lo |-> Zeros(DIGEST_BLOCK_SIZE),
                hi |-> IF self.salt # None
                       THEN xor_bytes(dst, data, Unwrap(self.salt))
                       ELSE write_all(dst, data)]
    IN  [self EXCEPT !.len = sum.val,
                     !.h = compress(self.c, cin),
                     !.log = Append(@, [data |-> data, cin |-> cin,
                                        h |-> compress(self.c, cin),
                                        len |-> sum.val])]

\* SumhashCore::update.  cin.lo is cin[0..64], cin.hi is cin[64..128].
update(self, data) ==
    IF self.panicked THEN self
    ELSE
      LET sum == AddU64(self.len, Len(data))
          dst == Zeros(128 - DIGEST_BLOCK_SIZE)
          bad == IF self.salt # None
                 THEN xor_bytes_panics(dst, data, Unwrap(self.salt))
                 ELSE write_all_panics(dst, data)
          cin == [lo |-> self.h,
                  hi |-> IF self.salt # None
                         THEN xor_bytes(dst, data, Unwrap(self.salt))
                         ELSE write_all(dst, data)]
      IN  IF (sum.overflow /\ overflowChecks) \/ bad
          THEN [self EXCEPT !.panicked = TRUE]
          ELSE [self EXCEPT !.len = sum.val,
                            !.h = compress(self.c, cin),
                            !.log = Append(@, [data |-> data, cin |-> cin,
                                               h |-> compress(self.c, cin),
                                               len |-> sum.val])]

\* reset that leaves len as it is.
reset_keeps_len(self) ==
    LET z == [self EXCEPT !.h = Zeros(DIGEST_SIZE), !.log = <<>>]
    IN  IF self.salt # None THEN update(z, Zeros(DIGEST_SIZE)) ELSE z

\* reset that does not write the initial block of zeros of a salted hasher.
reset_without_prelude(self) ==
    [self EXCEPT !.h = Zeros(DIGEST_SIZE), !.len = U64Zero, !.log = <<>>]

\* reset that takes the salt out as well.
reset_drops_salt(self) ==
    [self EXCEPT !.h = Zeros(DIGEST_SIZE), !.len = U64Zero, !.salt = None,
                 !.log = <<>>]

\* Reset for SumhashCore
reset(self) ==
    LET z == [self EXCEPT !.h = Zeros(DIGEST_SIZE), !.len = U64Zero, !.log = <<>>]
    IN  IF self.salt # None THEN update(z, Zeros(DIGEST_SIZE)) ELSE z

\* SumhashCore::new (and Default, with salt None)
new(s) ==
    reset([c |-> lookup_table, salt |-> s, h |-> Zeros(DIGEST_SIZE),
           len |-> U64Zero, log |-> <<>>, panicked |-> FALSE])

\* update_blocks that handles the first block of the slice only.
update_blocks_first(self, blocks) ==
    IF blocks = <<>> THEN self ELSE update(self, Head(blocks))

RECURSIVE update_blocks_reversed(_, _)
\* update_blocks that walks the slice from its last block to its first.
update_blocks_reversed(self, blocks) ==
    IF blocks = <<>> THEN self
    ELSE update(update_blocks_reversed(self, Tail(blocks)), Head(blocks))

RECURSIVE update_blocks(_, _)
\* UpdateCore::update_blocks: update on every block, in order.
update_blocks(self, blocks) ==
    IF blocks = <<>> THEN self
    ELSE update_blocks(update(self, Head(blocks)), Tail(blocks))

-----------------------------------------------------------------------------
(* The block buffer (BufferKind = Eager) and finalization *)

\* BlockBuffer::default
empty_buffer == [buffer |-> Zeros(BlockSize), pos |-> 0]

\* BlockBuffer::reset sets the cursor back to zero; the bytes behind it stay
\* (with them zeroed the buffer is empty_buffer, the state of a new hasher).
buffer_reset(buf) == [buf EXCEPT !.pos = 0]

\* input split into whole blocks; what is left over is shorter than a block.
split_blocks(input) ==
    [b \in 1..(Len(input) \div BlockSize) |->
        SubSeq(input, ((b - 1) * BlockSize) + 1, b * BlockSize)]

\* BlockBuffer<U64, Eager>::digest_blocks: the buffer afterwards and the block
\* slices handed to the callback, in order.
digest_blocks(buf, input) ==
    LET p == buf.pos
        rem == BlockSize - p
        n == Len(input)
    IN  IF n < rem
        THEN [buf |-> [buffer |-> [k \in 1..BlockSize |->
                                     IF k > p /\ k <= p + n THEN input[k - p]
                                     ELSE buf.buffer[k]],
                       pos |-> p + n],
              calls |-> <<>>]
        ELSE
          LET filled == [k \in 1..BlockSize |->
                           IF k > p THEN input[k - p] ELSE buf.buffer[k]]
              rest == IF p # 0 THEN Drop(input, rem) ELSE input
              blocks == split_blocks(rest)
              leftover == Drop(rest, Len(blocks) * BlockSize)
              kept == IF p # 0 THEN filled ELSE buf.buffer
          IN  [buf |-> [buffer |-> [k \in 1..BlockSize |->
                                      IF k <= Len(leftover) THEN leftover[k]
                                      ELSE kept[k]],
                        pos |-> Len(leftover)],
               calls |-> (IF p # 0 THEN << <<filled>> >> ELSE <<>>)
                         \o (IF blocks # <<>> THEN <<blocks>> ELSE <<>>)]

\* BlockBuffer::digest_pad(delim, suffix, compress): the buffer afterwards and
\* the blocks handed to the callback, in order.
digest_pad(buf, delim, suffix) ==
    LET p == buf.pos
        n == BlockSize - Len(suffix)
        padded == [k \in 1..BlockSize |->
                     IF k <= p THEN buf.buffer[k]
                     ELSE IF k = p + 1 THEN delim ELSE 0]
        withSuffix(b) == [k \in 1..BlockSize |->
                            IF k > n THEN suffix[k - n] ELSE b[k]]
    IN  IF BlockSize - p - 1 < Len(suffix)
        THEN [buf |-> [buffer |-> padded, pos |-> 0],
              calls |-> <<padded, withSuffix(Zeros(BlockSize))>>]
        ELSE [buf |-> [buffer |-> withSuffix(padded), pos |-> 0],
              calls |-> <<withSuffix(padded)>>]

\* A trailer that leaves the buffered bytes out of the bit length.
trailer_without_buffer(self, buf) ==
    write_u64(Shl3(self.len)) \o write_u64(U64Zero)

\* A trailer whose second write_u64 lands on tmp[0..] again.
trailer_overwritten(self, buf) ==
    write_u64(U64Zero) \o Zeros(8)

\* A 128-bit trailer: the bits the shift pushes out land in tmp[8..].
trailer_carry_high(self, buf) ==
    LET total == AddU64(self.len, buf.pos).val
    IN  write_u64(Shl3(total)) \o write_u64(<<total[4] \div 8192, 0, 0, 0>>)

\* The 16-byte length trailer of finalize_fixed_core.
trailer(self, buf) ==
    LET bitlen == Shl3(AddU64(self.len, buf.pos).val)
    IN  write_u64(bitlen) \o write_u64(U64Zero)

\* finalize_fixed_core padding with the delimiter 0x80.
finalize_fixed_core_delim(self, buf) ==
    LET pad == digest_pad(buf, 128, trailer(self, buf))
        core == update_blocks(self, pad.calls)
    IN  [core |-> core, buf |-> pad.buf, out |-> core.h, blocks |-> pad.calls]

\* finalize_fixed_core that pads with zeros alone: no delimiter, no length.
finalize_fixed_core_zero_pad(self, buf) ==
    LET pad == digest_pad(buf, 0, Zeros(16))
        core == update_blocks(self, pad.calls)
    IN  [core |-> core, buf |-> pad.buf, out |-> core.h, blocks |-> pad.calls]

\* FixedOutputCore::finalize_fixed_core: the core and buffer afterwards and out.
finalize_fixed_core(self, buf) ==
    LET sum == AddU64(self.len, buf.pos)
        pad == digest_pad(buf, 1, trailer(self, buf))
        start == IF sum.overflow /\ overflowChecks
                 THEN [self EXCEPT !.panicked = TRUE] ELSE self
        core == update_blocks(start, pad.calls)
    IN  [core |-> core, buf |-> pad.buf, out |-> core.h, blocks |-> pad.calls]

RECURSIVE wrapper_calls(_, _)
\* The callback of CoreWrapper::update: core.update_blocks on every slice.
wrapper_calls(self, calls) ==
    IF calls = <<>> THEN self
    ELSE wrapper_calls(update_blocks(self, Head(calls)), Tail(calls))

\* CoreWrapper::update (Update, and io::Write::write)
wrapper_update(w, input) ==
    LET d == digest_blocks(w.buf, input)
    IN  [core |-> wrapper_calls(w.core, d.calls), buf |-> d.buf]

\* CoreWrapper::reset
wrapper_reset(w) == [core |-> reset(w.core), buf |-> buffer_reset(w.buf)]

\* CoreWrapper::from_core(SumhashCore::new(salt)) / CoreWrapper::default
wrapper_new(s) == [core |-> new(s), buf |-> empty_buffer]

-----------------------------------------------------------------------------
(* Bounds and inputs *)

\* Writes to one hasher over its lifetime.
MaxWrites == 2

\* Resets of one hasher (reset, or finalize_fixed_reset).
MaxResets == 1

\* The salt of the salted hashers.
SaltA == [k \in 1..64 |-> ((5 * k) + 160) % 256]

Salts == {None, Some(SaltA)}

\* Slice lengths around the padding threshold and the block boundary.
ChunkLens == {0, 1, 47, 48, 63, 64, 65, 128}

Chunks == {Ramp(n) : n \in ChunkLens} \cup {Zeros(BlockSize)}

-----------------------------------------------------------------------------
(* The hashers as state *)

\* Hasher i as the wrapper value the operators work on.
Wrapper(i) ==
    [core |-> [c |-> c[i], salt |-> salt[i], h |-> h[i], len |-> len[i],
               log |-> log[i], panicked |-> FALSE],
     buf |-> [buffer |-> buffer[i], pos |-> pos[i]]]

\* A Store for hashers that keep the chain in one place shared by them all.
Store_shared_chain(i, w) ==
    /\ c' = [c EXCEPT ![i] = w.core.c]
    /\ salt' = [salt EXCEPT ![i] = w.core.salt]
    /\ h' = [j \in Hashers |-> w.core.h]
    /\ len' = [len EXCEPT ![i] = w.core.len]
    /\ log' = [log EXCEPT ![i] = w.core.log]
    /\ buffer' = [buffer EXCEPT ![i] = w.buf.buffer]
    /\ pos' = [pos EXCEPT ![i] = w.buf.pos]

\* Hasher i becomes the wrapper value w.
Store(i, w) ==
    /\ c' = [c EXCEPT ![i] = w.core.c]
    /\ salt' = [salt EXCEPT ![i] = w.core.salt]
    /\ h' = [h EXCEPT ![i] = w.core.h]
    /\ len' = [len EXCEPT ![i] = w.core.len]
    /\ log' = [log EXCEPT ![i] = w.core.log]
    /\ buffer' = [buffer EXCEPT ![i] = w.buf.buffer]
    /\ pos' = [pos EXCEPT ![i] = w.buf.pos]

\* What a finalization of hasher i is observed to do.
Observation(i, f) ==
    [out |-> f.out, blocks |-> f.blocks, msg |-> absorbed[i],
     h |-> h[i], len |-> len[i], pos |-> pos[i],
     buffered |-> Take(buffer[i], pos[i]), logBefore |-> log[i],
     log |-> f.core.log, resets |-> resets[i], discarded |-> discarded[i],
     chunks |-> chunks[i]]

InitPair ==
    /\ salt \in [Hashers -> Salts]
    /\ overflowChecks \in BOOLEAN
    /\ c = [i \in Hashers |-> wrapper_new(salt[i]).core.c]
    /\ h = [i \in Hashers |-> wrapper_new(salt[i]).core.h]
    /\ len = [i \in Hashers |-> wrapper_new(salt[i]).core.len]
    /\ log = [i \in Hashers |-> wrapper_new(salt[i]).core.log]
    /\ buffer = [i \in Hashers |-> wrapper_new(salt[i]).buf.buffer]
    /\ pos = [i \in Hashers |-> wrapper_new(salt[i]).buf.pos]
    /\ pc = [i \in Hashers |-> "ready"]
    /\ absorbed = [i \in Hashers |-> <<>>]
    /\ writes = [i \in Hashers |-> 0]
    /\ resets = [i \in Hashers |-> 0]
    /\ discarded = [i \in Hashers |-> <<>>]
    /\ chunks = [i \in Hashers |-> <<>>]
    /\ written = [i \in Hashers |-> None]
    /\ fin = [i \in Hashers |-> None]

\* One hasher is driven; the other stays as constructed, unsalted.
Init == InitPair /\ salt[2] = None

\* h.write(data): CoreWrapper::update, then Ok(data.len()).
Write(i, data) ==
    /\ pc[i] = "ready"
    /\ writes[i] < MaxWrites
    /\ \E w \in {wrapper_update(Wrapper(i), data)} :
           /\ Store(i, w)
           /\ pc' = [pc EXCEPT ![i] = IF w.core.panicked THEN "panic" ELSE "ready"]
    /\ absorbed' = [absorbed EXCEPT ![i] = @ \o data]
    /\ writes' = [writes EXCEPT ![i] = @ + 1]
    /\ written' = [written EXCEPT ![i] = Some(Len(data))]
    /\ fin' = [fin EXCEPT ![i] = None]
    /\ chunks' = [chunks EXCEPT ![i] = Append(@, Len(data))]
    /\ UNCHANGED <<overflowChecks, resets, discarded>>

\* h.reset()
Reset(i) ==
    /\ pc[i] = "ready"
    /\ resets[i] < MaxResets
    /\ \E w \in {wrapper_reset(Wrapper(i))} :
           /\ Store(i, w)
           /\ pc' = [pc EXCEPT ![i] = IF w.core.panicked THEN "panic" ELSE "ready"]
    /\ absorbed' = [absorbed EXCEPT ![i] = <<>>]
    /\ discarded' = [discarded EXCEPT ![i] = absorbed[i]]
    /\ chunks' = [chunks EXCEPT ![i] = <<>>]
    /\ resets' = [resets EXCEPT ![i] = @ + 1]
    /\ written' = [written EXCEPT ![i] = None]
    /\ fin' = [fin EXCEPT ![i] = None]
    /\ UNCHANGED <<overflowChecks, writes>>

\* h.finalize_fixed(): finalize_fixed_core on the consumed hasher.
FinalizeFixed(i) ==
    /\ pc[i] = "ready"
    /\ \E f \in {finalize_fixed_core(Wrapper(i).core, Wrapper(i).buf)} :
           /\ Store(i, [core |-> f.core, buf |-> f.buf])
           /\ pc' = [pc EXCEPT ![i] = IF f.core.panicked THEN "panic" ELSE "done"]
           /\ fin' = [fin EXCEPT ![i] =
                        IF f.core.panicked THEN None ELSE Some(Observation(i, f))]
    /\ written' = [written EXCEPT ![i] = None]
    /\ UNCHANGED <<overflowChecks, absorbed, writes, resets, discarded, chunks>>

\* h.finalize_fixed_reset(): finalize_fixed_core, then core and buffer reset.
FinalizeFixedReset(i) ==
    /\ pc[i] = "ready"
    /\ resets[i] < MaxResets
    /\ \E f \in {finalize_fixed_core(Wrapper(i).core, Wrapper(i).buf)} :
       \E w \in {wrapper_reset([core |-> f.core, buf |-> f.buf])} :
           /\ Store(i, w)
           /\ pc' = [pc EXCEPT ![i] = IF w.core.panicked THEN "panic" ELSE "ready"]
           /\ fin' = [fin EXCEPT ![i] =
                        IF w.core.panicked THEN None ELSE Some(Observation(i, f))]
    /\ absorbed' = [absorbed EXCEPT ![i] = <<>>]
    /\ discarded' = [discarded EXCEPT ![i] = absorbed[i]]
    /\ chunks' = [chunks EXCEPT ![i] = <<>>]
    /\ resets' = [resets EXCEPT ![i] = @ + 1]
    /\ written' = [written EXCEPT ![i] = None]
    /\ UNCHANGED <<overflowChecks, writes>>

\* One hasher, driven by its owner.
Next ==
    \/ \E data \in Chunks : Write(1, data)
    \/ Reset(1)
    \/ FinalizeFixed(1)
    \/ FinalizeFixedReset(1)

Spec == Init /\ [][Next]_vars

-----------------------------------------------------------------------------
(* Two hashers, each fed by its own owner *)

\* Slices of one repeated byte, so that different chunkings give the same bytes.
PairChunks == {Rep(7, n) : n \in {1, 64, 128}}

NextPair ==
    \E i \in Hashers :
        \/ \E data \in PairChunks : Write(i, data)
        \/ FinalizeFixed(i)

SpecPair == InitPair /\ [][NextPair]_vars

-----------------------------------------------------------------------------
(* Two hashers whose owners write, reset and finalize in any interleaving *)

\* Each owner writes its own bytes: one a slice that crosses a block boundary,
\* the other a slice that stays inside a block.
IsoChunk(i) == IF i = 1 THEN Ramp(65) ELSE Rep(7, 63)

NextIso ==
    \E i \in Hashers :
        \/ Write(i, IsoChunk(i))
        \/ Reset(i)
        \/ FinalizeFixed(i)

SpecIso == InitPair /\ [][NextIso]_vars

-----------------------------------------------------------------------------
(* Two hashers with one salt setting, fed messages that look like padding *)

\* The delimiter byte and runs of zeros: <<1>> followed by 63 zeros is the
\* block that pads the empty message.
PadChunks == {<<1>>, Zeros(47), Zeros(63)}

InitPad == InitPair /\ salt[1] = salt[2]

NextPad ==
    \E i \in Hashers :
        \/ \E data \in PadChunks : Write(i, data)
        \/ FinalizeFixed(i)

SpecPad == InitPad /\ [][NextPad]_vars

-----------------------------------------------------------------------------
(* finalize_fixed_core as a function of the state it is called in *)

\* 2^61, 2^62 and 2^63 as u64.
U64Pow61 == <<0, 0, 0, 8192>>

U64Pow62 == <<0, 0, 0, 16384>>

U64Pow63 == <<0, 0, 0, 32768>>

\* Byte counts: len is a multiple of 64 below 2^64.
FinLens ==
    {U64Zero, U64(64), U64(128), U64Pow61, AddU64(U64Pow61, 64).val,
     U64Pow62, AddU64(U64Pow63, 128).val}

\* Chain values: the initial one and one that a compression returned.
FinChains ==
    {Zeros(DIGEST_SIZE),
     compress(lookup_table, [lo |-> Zeros(DIGEST_SIZE), hi |-> Ramp(64)])}

FinFills == {0, 1, 47, 48, 63}

\* Two hashers with the same salt, chain and buffer, each with a byte count.
InitFin ==
    /\ \E s \in Salts : salt = [i \in Hashers |-> s]
    /\ overflowChecks \in BOOLEAN
    /\ c = [i \in Hashers |-> lookup_table]
    /\ \E x \in FinChains : h = [i \in Hashers |-> x]
    /\ len \in [Hashers -> FinLens]
    /\ log = [i \in Hashers |-> <<>>]
    /\ buffer = [i \in Hashers |-> Ramp(BlockSize)]
    /\ \E p \in FinFills : pos = [i \in Hashers |-> p]
    /\ pc = [i \in Hashers |-> "ready"]
    /\ absorbed = [i \in Hashers |-> <<>>]
    /\ writes = [i \in Hashers |-> 0]
    /\ resets = [i \in Hashers |-> 0]
    /\ discarded = [i \in Hashers |-> <<>>]
    /\ chunks = [i \in Hashers |-> <<>>]
    /\ written = [i \in Hashers |-> None]
    /\ fin = [i \in Hashers |-> None]

NextFin == \E i \in Hashers : FinalizeFixed(i)

SpecFin == InitFin /\ [][NextFin]_vars

-----------------------------------------------------------------------------
(* Reference computations *)

\* The digest of a fresh hasher with salt s that absorbs m in one call.
OneShot(s, m) ==
    LET w == wrapper_update(wrapper_new(s), m)
    IN  finalize_fixed_core(w.core, w.buf).out

RECURSIVE LittleEndian(_, _)
\* The n low bytes of the natural v, least significant first.
LittleEndian(v, n) ==
    IF n = 0 THEN <<>> ELSE <<v % 256>> \o LittleEndian(v \div 256, n - 1)

\* The value of a u64 below 2^31.
U64Value(x) == x[1] + (Limb * x[2])

\* The bytes of the salted prelude block counted in len.
Prelude(i) == IF salt[i] # None THEN DIGEST_BLOCK_SIZE ELSE 0

\* The data of the internal updates of a log, in order.
Blocks(l) == [k \in 1..Len(l) |-> l[k].data]

\* The inputs to compression of the internal updates of a log, in order.
Cins(l) == [k \in 1..Len(l) |-> l[k].cin]

\* m with s XORed into each of its 64-byte blocks (the last may be partial).
XorSalt(m, s) ==
    [k \in 1..Len(m) |-> XorTable[m[k]][s[((k - 1) % BlockSize) + 1]]]

RECURSIVE Concat(_)
\* The concatenation of a sequence of byte strings.
Concat(ss) == IF ss = <<>> THEN <<>> ELSE Head(ss) \o Concat(Tail(ss))

\* The bytes of m that make up whole blocks.
WholeBlocks(m) == Take(m, Len(m) - (Len(m) % BlockSize))

\* An unsalted hasher fed the salt s followed by the salt-XORed blocks of m.
UnsaltedImage(s, m) == wrapper_update(wrapper_new(None), s \o XorSalt(m, s))

\* The prelude block of hasher i, if it is salted.
PreludeBlocks(i) == IF salt[i] # None THEN <<Zeros(DIGEST_SIZE)>> ELSE <<>>

\* The chain values of the internal updates of a log, in order.
Chains(l) == [k \in 1..Len(l) |-> l[k].h]

\* A u64 byte count modulo 2^61.
Mod2Pow61(x) == <<x[1], x[2], x[3], x[4] % 8192>>

\* The final block of a finalization and its 16-byte trailer.
LastBlock(o) == o.blocks[Len(o.blocks)]

Trailer(o) == Drop(LastBlock(o), 48)

RECURSIVE Sum(_)
Sum(ns) == IF ns = <<>> THEN 0 ELSE Head(ns) + Sum(Tail(ns))

RECURSIVE Feed(_, _, _)
\* The wrapper w after the bytes m are written to it in slices of lengths ns.
Feed(w, m, ns) ==
    IF ns = <<>> THEN w
    ELSE Feed(wrapper_update(w, Take(m, Head(ns))), Drop(m, Head(ns)), Tail(ns))

\* A hasher with salt s, with no other hasher around, brought to the point of
\* the finalization observed as o: constructed, what was discarded written and
\* reset if there was a reset, then the writes since, slice by slice.
Alone(s, o) ==
    Feed(IF o.resets > 0
         THEN wrapper_reset(wrapper_update(wrapper_new(s), o.discarded))
         ELSE wrapper_new(s),
         o.msg, o.chunks)

\* The step is an operation on hasher i.
Acted(i) == <<pc[i], writes[i], resets[i]>>' # <<pc[i], writes[i], resets[i]>>

\* The chain and len that the k-th internal update of the log l started from:
\* those a reset leaves for the first, the results of the one before otherwise.
ChainBefore(l, k) == IF k = 1 THEN Zeros(DIGEST_SIZE) ELSE l[k - 1].h

LenBefore(l, k) == IF k = 1 THEN U64Zero ELSE l[k - 1].len

\* The u64 that eight little-endian bytes spell.
FromLittleEndian(b) == [k \in 1..4 |-> b[(2 * k) - 1] + (256 * b[2 * k])]

\* A u64 divided by 8, rounded down.
Div8(x) ==
    [k \in 1..4 |-> (x[k] \div 8) + (IF k < 4 THEN (x[k + 1] % 8) * 8192 ELSE 0)]

\* The total byte count a finalization observed as o started from.
Total(o) == AddU64(o.len, o.pos).val

-----------------------------------------------------------------------------
(* Claims *)

\* C1. Concatenation invariance: the digest of a hasher that absorbed its
\* message in any number of writes, split anywhere, is the digest of a fresh
\* hasher with the same salt setting that absorbs the whole message in one call.
ConcatenationInvariance ==
    \A i \in Hashers :
        fin[i] # None =>
            Unwrap(fin[i]).out = OneShot(salt[i], Unwrap(fin[i]).msg)

\* A finalization after two non-empty writes, split inside a block, that
\* together cross a block boundary.
ConcatenationWitness ==
    \E i \in Hashers :
        /\ fin[i] # None
        /\ Len(Unwrap(fin[i]).chunks) = 2
        /\ Unwrap(fin[i]).chunks[1] % BlockSize # 0
        /\ Unwrap(fin[i]).chunks[2] # 0
        /\ Unwrap(fin[i]).chunks[1] + Unwrap(fin[i]).chunks[2] > BlockSize

\* C2. Reset equivalence: right after a reset the chain, the byte counter, the
\* buffer fill and the update log are those of a newly constructed hasher with
\* the same salt, and a digest finalized after a reset is the digest of a fresh
\* hasher with the same salt fed the bytes absorbed since the reset.
ResetEquivalence ==
    \A i \in Hashers :
        /\ (resets[i] > 0 /\ pc[i] = "ready" /\ chunks[i] = <<>>) =>
              /\ h[i] = new(salt[i]).h
              /\ len[i] = new(salt[i]).len
              /\ log[i] = new(salt[i]).log
              /\ pos[i] = 0
        /\ (fin[i] # None /\ Unwrap(fin[i]).resets > 0) =>
              Unwrap(fin[i]).out = OneShot(salt[i], Unwrap(fin[i]).msg)

\* A digest finalized after a reset that discarded input ending in a partial
\* block, with new input absorbed since.
ResetWitness ==
    \E i \in Hashers :
        /\ fin[i] # None
        /\ Unwrap(fin[i]).resets > 0
        /\ Len(Unwrap(fin[i]).discarded) % BlockSize # 0
        /\ Unwrap(fin[i]).msg # <<>>

\* C3. Finalization padding: 0x01 follows the buffered bytes, then zeros, then
\* the 16-byte trailer ends the final block; one block is passed to update when
\* at most 47 bytes are buffered and two otherwise (the second being 48 zeros and
\* the trailer); the digest is the chain after the last of these blocks.
FinalizationPadding ==
    \A i \in Hashers :
        fin[i] # None =>
            LET o == Unwrap(fin[i])
                p == o.pos
                n == Len(o.blocks)
                before == Len(o.logBefore)
                tail == write_u64(Shl3(AddU64(o.len, p).val)) \o Zeros(8)
            IN  /\ p \in 0..(BlockSize - 1)
                /\ Len(o.buffered) = p
                /\ n = IF p <= 47 THEN 1 ELSE 2
                /\ \A k \in 1..n : Len(o.blocks[k]) = BlockSize
                /\ p <= 47 =>
                      o.blocks[1] = o.buffered \o <<1>> \o Zeros(47 - p) \o tail
                /\ p >= 48 =>
                      /\ o.blocks[1] = o.buffered \o <<1>> \o Zeros(63 - p)
                      /\ o.blocks[2] = Zeros(48) \o tail
                /\ Len(o.log) = before + n
                /\ Take(o.log, before) = o.logBefore
                /\ \A k \in 1..n : o.log[before + k].data = o.blocks[k]
                /\ o.out = o.log[before + n].h

\* Finalizations with one padding block and with two, the buffer not empty.
PaddingWitness ==
    \E i \in Hashers :
        /\ fin[i] # None
        /\ Unwrap(fin[i]).pos >= 48
        /\ Unwrap(fin[i]).msg # <<>>
        /\ Len(Unwrap(fin[i]).blocks) = 2

\* C4. Length trailer: the last 16 bytes of the final block are the
\* little-endian 8 * (len + buffered bytes) in the low 8 bytes and zero in the
\* high 8, with len read before the padding is absorbed: 8 * n for an unsalted
\* hasher that absorbed n bytes, 8 * (n + 64) for a salted one.
LengthTrailer ==
    \A i \in Hashers :
        fin[i] # None =>
            LET o == Unwrap(fin[i])
                last == o.blocks[Len(o.blocks)]
                n == Len(o.msg)
            IN  /\ Drop(last, 48) =
                      LittleEndian(8 * (U64Value(o.len) + o.pos), 8) \o Zeros(8)
                /\ Drop(last, 48) =
                      LittleEndian(8 * (n + Prelude(i)), 8) \o Zeros(8)

\* A salted finalization of more than a block of input whose padding takes two
\* blocks.
TrailerWitness ==
    \E i \in Hashers :
        /\ fin[i] # None
        /\ salt[i] # None
        /\ Len(Unwrap(fin[i]).msg) > BlockSize
        /\ Unwrap(fin[i]).pos >= 48

\* C5. Initial state: before any byte is absorbed, after construction and after
\* every reset, the buffer is empty; an unsalted hasher has the zero chain,
\* len = 0 and has compressed nothing; a salted hasher has made exactly one
\* update, on the zero block from the zero chain, so that its chain is
\* compress(zero chain || salt) and its len is 64.
InitialState ==
    \A i \in Hashers :
        (pc[i] = "ready" /\ chunks[i] = <<>>) =>
            /\ pos[i] = 0
            /\ salt[i] = None =>
                  /\ h[i] = Zeros(DIGEST_SIZE)
                  /\ len[i] = U64Zero
                  /\ log[i] = <<>>
            /\ salt[i] # None =>
                  LET cin == [lo |-> Zeros(DIGEST_SIZE), hi |-> Unwrap(salt[i])]
                  IN  /\ Len(log[i]) = 1
                      /\ log[i][1].data = Zeros(DIGEST_BLOCK_SIZE)
                      /\ log[i][1].cin = cin
                      /\ h[i] = compress(c[i], cin)
                      /\ len[i] = U64(64)

\* A salted hasher right after a reset that discarded absorbed input.
InitialStateWitness ==
    \E i \in Hashers :
        /\ salt[i] # None
        /\ pc[i] = "ready"
        /\ chunks[i] = <<>>
        /\ resets[i] > 0
        /\ discarded[i] # <<>>

\* C6 as stated. The salted hasher fed m and the unsalted hasher fed the salt
\* followed by the salt-XORed blocks of m pass the same inputs to compression
\* through finalization and return the same digest.
SaltEquivalenceThroughFinalize ==
    \A i \in Hashers :
        (fin[i] # None /\ salt[i] # None) =>
            LET o == Unwrap(fin[i])
                u == UnsaltedImage(Unwrap(salt[i]), o.msg)
                f == finalize_fixed_core(u.core, u.buf)
            IN  /\ Cins(o.log) = Cins(f.core.log)
                /\ o.out = f.out

\* C6, amended. Up to finalization the salted hasher fed m and the unsalted
\* hasher fed salt || (blocks of m XOR salt) have passed the same inputs to
\* compression and hold the same chain, len and buffer fill.  The salted
\* finalization XORs the salt into its padding blocks as well: its digest is the
\* chain of the unsalted hasher after it absorbs, in addition, the salt-XORed
\* padding blocks, with the same inputs to compression.
SaltZeroBlockEquivalence ==
    \A i \in Hashers :
        salt[i] # None =>
            /\ pc[i] = "ready" =>
                  \A u \in {UnsaltedImage(Unwrap(salt[i]), absorbed[i])} :
                      /\ Cins(log[i]) = Cins(u.core.log)
                      /\ h[i] = u.core.h
                      /\ len[i] = u.core.len
                      /\ pos[i] = u.buf.pos
            /\ fin[i] # None =>
                  \A o \in {Unwrap(fin[i])} :
                  \A v \in {UnsaltedImage(Unwrap(salt[i]),
                                          WholeBlocks(o.msg) \o Concat(o.blocks))} :
                      /\ Cins(o.log) = Cins(v.core.log)
                      /\ o.out = v.core.h
                      /\ v.buf.pos = 0

\* A salted finalization of more than a block of input that ends in a partial
\* block.
SaltEquivalenceWitness ==
    \E i \in Hashers :
        /\ fin[i] # None
        /\ salt[i] # None
        /\ Len(Unwrap(fin[i]).msg) > BlockSize
        /\ Unwrap(fin[i]).pos > 0

\* C7. Every block handed to update reaches compression XORed byte-wise with
\* the salt in salted mode and unchanged in unsalted mode: the zero prelude
\* block, every whole block of the input, and the padding blocks of finalize.
SaltXorEveryBlock ==
    \A i \in Hashers :
        LET expect(e) == IF salt[i] # None
                         THEN [k \in 1..DIGEST_BLOCK_SIZE |->
                                 XorTable[e.data[k]][Unwrap(salt[i])[k]]]
                         ELSE e.data
            each(l) == \A k \in 1..Len(l) : l[k].cin.hi = expect(l[k])
        IN  /\ each(log[i])
            /\ pc[i] = "ready" =>
                  Blocks(log[i]) = PreludeBlocks(i) \o split_blocks(absorbed[i])
            /\ fin[i] # None =>
                  /\ each(Unwrap(fin[i]).log)
                  /\ Blocks(Unwrap(fin[i]).log) =
                        PreludeBlocks(i) \o split_blocks(Unwrap(fin[i]).msg)
                           \o Unwrap(fin[i]).blocks

\* A salted finalization with whole input blocks and two padding blocks.
SaltXorWitness ==
    \E i \in Hashers :
        /\ fin[i] # None
        /\ salt[i] # None
        /\ Len(Unwrap(fin[i]).msg) >= BlockSize
        /\ Len(Unwrap(fin[i]).blocks) = 2

\* C8. Infallibility: no hasher panics; every write returns the length of its
\* slice and every byte written is in the buffer or counted in len; every
\* internal update receives exactly 64 bytes.
Infallible ==
    \A i \in Hashers :
        /\ pc[i] # "panic"
        /\ \A k \in 1..Len(log[i]) : Len(log[i][k].data) = DIGEST_BLOCK_SIZE
        /\ fin[i] # None =>
              \A k \in 1..Len(Unwrap(fin[i]).log) :
                  Len(Unwrap(fin[i]).log[k].data) = DIGEST_BLOCK_SIZE
        /\ written[i] # None =>
              /\ chunks[i] # <<>>
              /\ Unwrap(written[i]) = chunks[i][Len(chunks[i])]
        /\ pc[i] = "ready" =>
              /\ Sum(chunks[i]) = Len(absorbed[i])
              /\ U64Value(len[i]) + pos[i] = Len(absorbed[i]) + Prelude(i)

\* A finalization after an empty write and a write of more than one block,
\* following a reset.
InfallibleWitness ==
    \E i \in Hashers :
        /\ fin[i] # None
        /\ pc[i] # "panic"
        /\ \E k \in 1..Len(Unwrap(fin[i]).chunks) : Unwrap(fin[i]).chunks[k] = 0
        /\ \E k \in 1..Len(Unwrap(fin[i]).chunks) :
              Unwrap(fin[i]).chunks[k] > BlockSize

\* C9 as stated. Two finalizations over the same chain and the same buffered
\* bytes with different byte counts len pass different final blocks to
\* compression and return different digests; the high 8 bytes of every trailer
\* are zero.
LengthFieldInjective ==
    /\ \A i \in Hashers :
          fin[i] # None => Drop(Trailer(Unwrap(fin[i])), 8) = Zeros(8)
    /\ \A i, j \in Hashers :
          (/\ fin[i] # None /\ fin[j] # None
           /\ Unwrap(fin[i]).h = Unwrap(fin[j]).h
           /\ Unwrap(fin[i]).buffered = Unwrap(fin[j]).buffered
           /\ Unwrap(fin[i]).len # Unwrap(fin[j]).len) =>
              /\ Trailer(Unwrap(fin[i])) # Trailer(Unwrap(fin[j]))
              /\ LastBlock(Unwrap(fin[i])) # LastBlock(Unwrap(fin[j]))
              /\ Unwrap(fin[i]).out # Unwrap(fin[j]).out

\* C9, amended. Two finalizations over the same chain and the same buffered
\* bytes whose byte counts len differ modulo 2^61 (as any two different counts
\* below 2^61 do) pass different final blocks to compression and return
\* different digests; the high 8 bytes of every trailer are zero.
LengthFieldEncoding ==
    /\ \A i \in Hashers :
          fin[i] # None => Drop(Trailer(Unwrap(fin[i])), 8) = Zeros(8)
    /\ \A i, j \in Hashers :
          (/\ fin[i] # None /\ fin[j] # None
           /\ Unwrap(fin[i]).h = Unwrap(fin[j]).h
           /\ Unwrap(fin[i]).buffered = Unwrap(fin[j]).buffered
           /\ Mod2Pow61(Unwrap(fin[i]).len) # Mod2Pow61(Unwrap(fin[j]).len)) =>
              /\ Trailer(Unwrap(fin[i])) # Trailer(Unwrap(fin[j]))
              /\ LastBlock(Unwrap(fin[i])) # LastBlock(Unwrap(fin[j]))
              /\ Unwrap(fin[i]).out # Unwrap(fin[j]).out

\* Two finalizations over the same chain and buffer, one with a byte count
\* below 2^61 and one with a count above it that differs modulo 2^61.
LengthFieldWitness ==
    \E i, j \in Hashers :
        /\ fin[i] # None /\ fin[j] # None
        /\ Unwrap(fin[i]).h = Unwrap(fin[j]).h
        /\ Unwrap(fin[i]).buffered = Unwrap(fin[j]).buffered
        /\ Unwrap(fin[i]).buffered # <<>>
        /\ Unwrap(fin[i]).len = U64(64)
        /\ Unwrap(fin[j]).len[4] >= 8192
        /\ Mod2Pow61(Unwrap(fin[i]).len) # Mod2Pow61(Unwrap(fin[j]).len)

\* C10. Determinism: two hashers with the same salt setting that absorbed the
\* same bytes, however chunked, stepped through the same chain values and hold
\* the same chain, len and buffered bytes; finalized, they return the same
\* digest.
Determinism ==
    \A i, j \in Hashers :
        salt[i] = salt[j] =>
            /\ (pc[i] = "ready" /\ pc[j] = "ready"
                   /\ absorbed[i] = absorbed[j]) =>
                  /\ h[i] = h[j]
                  /\ len[i] = len[j]
                  /\ pos[i] = pos[j]
                  /\ Take(buffer[i], pos[i]) = Take(buffer[j], pos[j])
                  /\ Chains(log[i]) = Chains(log[j])
            /\ (fin[i] # None /\ fin[j] # None
                   /\ Unwrap(fin[i]).msg = Unwrap(fin[j]).msg) =>
                  /\ Unwrap(fin[i]).out = Unwrap(fin[j]).out
                  /\ Chains(Unwrap(fin[i]).log) = Chains(Unwrap(fin[j]).log)

\* Two salted hashers finalized on the same bytes, absorbed in different chunks.
DeterminismWitness ==
    \E i, j \in Hashers :
        /\ salt[i] # None
        /\ salt[i] = salt[j]
        /\ fin[i] # None /\ fin[j] # None
        /\ Unwrap(fin[i]).msg = Unwrap(fin[j]).msg
        /\ Unwrap(fin[i]).chunks # Unwrap(fin[j]).chunks
        /\ Len(Unwrap(fin[i]).msg) > BlockSize

\* C11. Instance isolation: with the writes, resets and finalizations of two
\* hashers (salted or not, in any mix) interleaved in any order, every digest is
\* the digest of the same hasher run alone on its own operations, and a step of
\* one hasher leaves the other's chain, len, salt, buffer, buffer fill and
\* lookup table as they were.
InstanceIsolation ==
    /\ [](\A i \in Hashers :
            fin[i] # None =>
                \A o \in {Unwrap(fin[i])} :
                \A w \in {Alone(salt[i], o)} :
                    o.out = finalize_fixed_core(w.core, w.buf).out)
    /\ [][\A i, j \in Hashers :
            (i # j /\ Acted(i)) =>
                /\ c'[j] = c[j]
                /\ h'[j] = h[j]
                /\ len'[j] = len[j]
                /\ salt'[j] = salt[j]
                /\ buffer'[j] = buffer[j]
                /\ pos'[j] = pos[j]]_vars

\* A salted and an unsalted hasher, fed different bytes, both finalized after a
\* reset that discarded input and writes since.
IsolationWitness ==
    \E i, j \in Hashers :
        /\ salt[i] # None /\ salt[j] = None
        /\ fin[i] # None /\ fin[j] # None
        /\ Unwrap(fin[i]).resets > 0 /\ Unwrap(fin[j]).resets > 0
        /\ Unwrap(fin[i]).discarded # <<>> /\ Unwrap(fin[j]).discarded # <<>>
        /\ Unwrap(fin[i]).msg # <<>> /\ Unwrap(fin[j]).msg # <<>>
        /\ Unwrap(fin[i]).msg # Unwrap(fin[j]).msg

\* C13. Internal update step: every internal update since construction or
\* reset got a 64-byte block, built cin with cin[0..64] the chain it started
\* from and cin[64..128] the block (XOR salt when salted), left as the chain
\* compress(cin) itself, with nothing of the old chain mixed in, and raised len
\* by exactly 64; the hasher's chain and len are those of its last update.
UpdateStep ==
    \A i \in Hashers :
        LET step(l, k) ==
                /\ Len(l[k].data) = DIGEST_BLOCK_SIZE
                /\ l[k].cin.lo = ChainBefore(l, k)
                /\ Len(l[k].cin.hi) = 128 - DIGEST_BLOCK_SIZE
                /\ l[k].cin.hi = IF salt[i] # None
                                 THEN XorSalt(l[k].data, Unwrap(salt[i]))
                                 ELSE l[k].data
                /\ l[k].h = compress(c[i], l[k].cin)
                /\ l[k].len = AddU64(LenBefore(l, k), 64).val
            steps(l) == \A k \in 1..Len(l) : step(l, k)
        IN  /\ steps(log[i])
            /\ log[i] # <<>> =>
                  /\ h[i] = log[i][Len(log[i])].h
                  /\ len[i] = log[i][Len(log[i])].len
            /\ fin[i] # None =>
                  /\ steps(Unwrap(fin[i]).log)
                  /\ Unwrap(fin[i]).out = LET l == Unwrap(fin[i]).log IN l[Len(l)].h

\* A salted finalization after at least four internal updates: the prelude,
\* two blocks of input and the padding.
UpdateStepWitness ==
    \E i \in Hashers :
        /\ salt[i] # None
        /\ fin[i] # None
        /\ Len(Unwrap(fin[i]).log) >= 4
        /\ Len(Unwrap(fin[i]).msg) >= 2 * BlockSize
        /\ Unwrap(fin[i]).log[4].cin.lo = Unwrap(fin[i]).log[3].h
        /\ Unwrap(fin[i]).log[4].cin.lo # Unwrap(fin[i]).log[3].cin.lo

\* C14. Eager block buffering: whenever a hasher is ready to absorb, with n the
\* number of bytes absorbed since construction or the last reset, the buffer
\* holds the last n mod 64 of them and never 64, floor(n / 64) blocks of the
\* input have gone to the internal update, in input order (after the prelude of
\* a salted hasher), and len = 64 * floor(n / 64), plus 64 when salted: a
\* multiple of 64 that leaves the buffered bytes out.
EagerBuffering ==
    \A i \in Hashers :
        pc[i] = "ready" =>
            LET n == Len(absorbed[i])
                whole == n \div BlockSize
                user == Drop(Blocks(log[i]), Len(PreludeBlocks(i)))
            IN  /\ pos[i] = n % BlockSize
                /\ pos[i] < BlockSize
                /\ Take(buffer[i], pos[i]) = Drop(absorbed[i], whole * BlockSize)
                /\ Len(log[i]) = Len(PreludeBlocks(i)) + whole
                /\ \A k \in 1..whole :
                      user[k] = SubSeq(absorbed[i], ((k - 1) * BlockSize) + 1,
                                       k * BlockSize)
                /\ len[i] = U64((BlockSize * whole) + Prelude(i))
                /\ len[i][1] % BlockSize = 0

\* A salted hasher after a write of one byte and a write of the 63 bytes that
\* complete the block: the block has gone to the internal update and the
\* buffer is empty again.
EagerBufferingWitness ==
    \E i \in Hashers :
        /\ salt[i] # None
        /\ pc[i] = "ready"
        /\ chunks[i] = <<1, 63>>
        /\ pos[i] = 0
        /\ Len(log[i]) = 2

\* C15. Frame condition: no write, reset or finalization (and so no internal
\* update) changes a hasher's salt, whether it has one, or its lookup table; a
\* write of fewer bytes than the block in the buffer still lacks makes no
\* internal update and leaves chain and len alone, adding its bytes after those
\* already in the buffer; a reset leaves salt and lookup table alone.
FrameCondition ==
    [][\A i \in Hashers :
          /\ salt'[i] = salt[i]
          /\ (salt'[i] = None) <=> (salt[i] = None)
          /\ c'[i] = c[i]
          /\ (/\ writes'[i] # writes[i]
              /\ Unwrap(written'[i]) < BlockSize - pos[i]) =>
                /\ h'[i] = h[i]
                /\ len'[i] = len[i]
                /\ log'[i] = log[i]
                /\ pos'[i] = pos[i] + Unwrap(written'[i])
                /\ Take(buffer'[i], pos[i]) = Take(buffer[i], pos[i])
          /\ (resets'[i] # resets[i]) =>
                /\ salt'[i] = salt[i]
                /\ c'[i] = c[i]
                /\ pc'[i] = "ready"]_vars

\* A salted hasher that was reset with bytes in its buffer and has since been
\* written fewer bytes than a block.
FrameWitness ==
    \E i \in Hashers :
        /\ salt[i] # None
        /\ pc[i] = "ready"
        /\ resets[i] > 0
        /\ Len(discarded[i]) % BlockSize # 0
        /\ chunks[i] = <<47>>
        /\ written[i] = Some(47)
        /\ pos[i] = 47

\* C16. Bit-length wraparound: no finalization fails; the low 8 bytes of its
\* trailer spell, little-endian, (8 * (len + buffered bytes)) mod 2^64, that is a
\* multiple of 8 whose eighth is the byte count modulo 2^61, and the high 8
\* bytes are zero; two byte counts that differ by a multiple of 2^61 give the
\* same trailer, and a count below 2^61 gives its exact bit length.
BitLengthWraparound ==
    /\ \A i \in Hashers :
          /\ pc[i] # "panic"
          /\ fin[i] # None =>
                \A o \in {Unwrap(fin[i])} :
                \A bits \in {FromLittleEndian(Take(Trailer(o), 8))} :
                    /\ Len(Trailer(o)) = 16
                    /\ Drop(Trailer(o), 8) = Zeros(8)
                    /\ bits[1] % 8 = 0
                    /\ Div8(bits) = Mod2Pow61(Total(o))
                    /\ Total(o)[4] < 8192 => Div8(bits) = Total(o)
    /\ \A i, j \in Hashers :
          (/\ fin[i] # None /\ fin[j] # None
           /\ Mod2Pow61(Total(Unwrap(fin[i]))) = Mod2Pow61(Total(Unwrap(fin[j])))) =>
              Trailer(Unwrap(fin[i])) = Trailer(Unwrap(fin[j]))

\* Two finalizations with bytes in the buffer whose byte counts are 64 and
\* 2^61 + 64: different counts, the same trailer.
WraparoundWitness ==
    \E i, j \in Hashers :
        /\ fin[i] # None /\ fin[j] # None
        /\ Unwrap(fin[i]).pos > 0
        /\ Unwrap(fin[i]).len = U64(64)
        /\ Unwrap(fin[j]).len = AddU64(U64Pow61, 64).val
        /\ Trailer(Unwrap(fin[i])) = Trailer(Unwrap(fin[j]))

\* C17. Padding is block-aligned and injective: the blocks a hasher passed to
\* the internal update from construction through finalization are 64 bytes
\* each; after the prelude of a salted hasher there are floor(n / 64) + 1 of
\* them for a message of n bytes with n mod 64 <= 47 and floor(n / 64) + 2
\* otherwise; and two hashers with the same salt setting that finalized
\* different messages passed different block sequences.
PaddingInjective ==
    /\ \A i \in Hashers :
          fin[i] # None =>
              \A o \in {Unwrap(fin[i])} :
                  LET n == Len(o.msg)
                      seq == Blocks(o.log)
                  IN  /\ \A k \in 1..Len(seq) : Len(seq[k]) = 64
                      /\ Len(Concat(seq)) % 64 = 0
                      /\ Take(seq, Len(PreludeBlocks(i))) = PreludeBlocks(i)
                      /\ Len(seq) - Len(PreludeBlocks(i)) =
                            (n \div 64) + (IF n % 64 <= 47 THEN 1 ELSE 2)
    /\ \A i, j \in Hashers :
          (/\ fin[i] # None /\ fin[j] # None
           /\ salt[i] = salt[j]
           /\ Unwrap(fin[i]).msg # Unwrap(fin[j]).msg) =>
              /\ Blocks(Unwrap(fin[i]).log) # Blocks(Unwrap(fin[j]).log)
              /\ Concat(Blocks(Unwrap(fin[i]).log)) #
                    Concat(Blocks(Unwrap(fin[j]).log))

\* Two unsalted hashers, one finalized on the empty message and the other on
\* the message that is the padded form of the empty message.
PaddingInjectiveWitness ==
    \E i, j \in Hashers :
        /\ salt[i] = None
        /\ salt[i] = salt[j]
        /\ fin[i] # None /\ fin[j] # None
        /\ Unwrap(fin[i]).msg = <<>>
        /\ Unwrap(fin[j]).msg = Unwrap(fin[i]).blocks[1]
        /\ Len(Unwrap(fin[j]).log) = Len(Unwrap(fin[i]).log) + 1

=============================================================================
